---- MODULE Spec2Model ----
(***************************************************************************)
(* Model of src/opus_projection_encoder.c: the ambisonics projection       *)
(* encoder (channel configuration resolver, composite buffer layout,       *)
(* create / init / destroy, encode, and the control requests).             *)
(***************************************************************************)
EXTENDS Integers, Sequences, FiniteSets, TLC

(***************************************************************************)
(* Bounds of the model.                                                    *)
(***************************************************************************)
MaxChannels == 260
MaxSizeChannels == 40
MaxGarbageDim == 10
MaxFrameSize == 2
MaxMsOps == 2

(***************************************************************************)
(* Status codes (opus_defines.h).                                          *)
(***************************************************************************)
OPUS_OK == "OPUS_OK"
OPUS_BAD_ARG == "OPUS_BAD_ARG"
OPUS_INTERNAL_ERROR == "OPUS_INTERNAL_ERROR"
OPUS_UNIMPLEMENTED == "OPUS_UNIMPLEMENTED"
OPUS_ALLOC_FAIL == "OPUS_ALLOC_FAIL"

AmbisonicsFamily == 253
Channels == 0..MaxChannels
Families == {AmbisonicsFamily, 255}

(***************************************************************************)
(* C integer arithmetic.  Every value of the model stays far below 2^31,   *)
(* where int and unsigned arithmetic do not wrap.                          *)
(***************************************************************************)
ToInt16(x) == LET u == x % 65536 IN IF u >= 32768 THEN u - 65536 ELSE u

RECURSIVE Pow2(_)
Pow2(n) == IF n = 0 THEN 1 ELSE 2 * Pow2(n - 1)

(* EC_ILOG: the number of bits of val, 0 for 0 *)
RECURSIVE ec_ilog(_)
ec_ilog(val) == IF val = 0 THEN 0 ELSE 1 + ec_ilog(val \div 2)

RECURSIVE isqrt32_step(_, _, _)
isqrt32_step(val, g, bshift) ==
  IF bshift < 0 THEN g
  ELSE LET b == Pow2(bshift)
           t == (2 * g + b) * b
       IN IF t <= val THEN isqrt32_step(val - t, g + b, bshift - 1)
                      ELSE isqrt32_step(val, g, bshift - 1)

(* floor(sqrt(val)) by the bitwise method *)
isqrt32(val) ==
  IF val = 0 THEN 0 ELSE isqrt32_step(val, 0, (ec_ilog(val) - 1) \div 2)

(***************************************************************************)
(* Sizes of the collaborators' records and the alignment unit.             *)
(***************************************************************************)
Alignment == 8
SizeofOpusProjectionEncoder == 8
SizeofMappingMatrix == 12
SizeofInt16 == 2
SizeofOpusMSEncoder == 296
CoupledEncoderSize == 1208
MonoEncoderSize == 812

(* align(int i): rounds up to the next multiple of the alignment unit *)
align(i) == ((i + Alignment - 1) \div Alignment) * Alignment

mapping_matrix_get_size(rows, cols) ==
  align(SizeofMappingMatrix) + align(rows * cols * SizeofInt16)

opus_multistream_encoder_get_size(nb_streams, nb_coupled_streams) ==
  IF nb_streams < 1 \/ nb_coupled_streams > nb_streams
     \/ nb_coupled_streams < 0
  THEN 0
  ELSE align(SizeofOpusMSEncoder)
       + nb_coupled_streams * align(CoupledEncoderSize)
       + (nb_streams - nb_coupled_streams) * align(MonoEncoderSize)

(***************************************************************************)
(* Channel configuration resolver.                                         *)
(***************************************************************************)
(* order_check with the upper bound of the order off by one *)
order_check_upper_off_by_one(channels, order_plus_one_) ==
  [ret |-> IF order_plus_one_ < 1 \/ order_plus_one_ > 16
              \/ (channels - order_plus_one_ * order_plus_one_ # 0
                  /\ channels - order_plus_one_ * order_plus_one_ # 2)
           THEN OPUS_BAD_ARG ELSE OPUS_OK,
   order_plus_one |-> order_plus_one_]

order_check(channels, order_plus_one_) ==
  [ret |-> IF order_plus_one_ < 1 \/ order_plus_one_ > 15
              \/ (channels - order_plus_one_ * order_plus_one_ # 0
                  /\ channels - order_plus_one_ * order_plus_one_ # 2)
           THEN OPUS_BAD_ARG ELSE OPUS_OK,
   order_plus_one |-> order_plus_one_]

get_order_plus_one_from_channels(channels) ==
  order_check(channels, isqrt32(channels))

streams_from_order(channels, o) ==
  IF o.ret # OPUS_OK
  THEN [ret |-> OPUS_BAD_ARG, streams |-> -1, coupled_streams |-> -1,
        order_plus_one |-> o.order_plus_one]
  ELSE [ret |-> OPUS_OK, streams |-> (channels + 1) \div 2,
        coupled_streams |-> channels \div 2,
        order_plus_one |-> o.order_plus_one]

get_streams_from_channels(channels, mapping_family) ==
  IF mapping_family = 253
  THEN streams_from_order(channels,
                          get_order_plus_one_from_channels(channels))
  ELSE [ret |-> OPUS_BAD_ARG, streams |-> -1, coupled_streams |-> -1,
        order_plus_one |-> -1]

(***************************************************************************)
(* Composite layout: total size.                                           *)
(***************************************************************************)
total_size(matrix_size, encoder_size) ==
  IF encoder_size = 0 THEN 0
  ELSE align(SizeofOpusProjectionEncoder + matrix_size + matrix_size
             + encoder_size)

(* size_from_streams with the arguments of the sub-encoder size swapped *)
size_from_streams_swapped(r) ==
  IF r.ret # OPUS_OK THEN 0
  ELSE total_size(
         mapping_matrix_get_size(r.order_plus_one * r.order_plus_one + 2,
                                 r.order_plus_one * r.order_plus_one + 2),
         opus_multistream_encoder_get_size(r.coupled_streams, r.streams))

size_from_streams(r) ==
  IF r.ret # OPUS_OK THEN 0
  ELSE total_size(
         mapping_matrix_get_size(r.order_plus_one * r.order_plus_one + 2,
                                 r.order_plus_one * r.order_plus_one + 2),
         opus_multistream_encoder_get_size(r.streams, r.coupled_streams))

opus_projection_ambisonics_encoder_get_size(channels, mapping_family) ==
  size_from_streams(get_streams_from_channels(channels, mapping_family))

(***************************************************************************)
(* Accessors: byte offsets of the regions inside the composite buffer,     *)
(* recomputed from the sizes stored in the header.                         *)
(***************************************************************************)
get_mixing_matrix(hdr) == align(SizeofOpusProjectionEncoder)

(* get_demixing_matrix that forgets the size of the mixing block *)
get_demixing_matrix_at_mixing(hdr) == align(SizeofOpusProjectionEncoder)

get_demixing_matrix(hdr) ==
  align(SizeofOpusProjectionEncoder + hdr.mixing_matrix_size_in_bytes)

get_multistream_encoder(hdr) ==
  align(SizeofOpusProjectionEncoder + hdr.mixing_matrix_size_in_bytes
        + hdr.demixing_matrix_size_in_bytes)

(***************************************************************************)
(* Matrix catalog.  The coefficient tables are data outside this file:     *)
(* every table is generated from catalogSeed, so that all entries of one   *)
(* table differ and negative and extreme 16-bit values occur.              *)
(***************************************************************************)
CatalogSeeds == {-32768, -1, 12345}
CoefficientStride == 257

TableFrom(base, n) ==
  [i \in 1..n |-> ToInt16(base + (i - 1) * CoefficientStride)]

CatalogData(seed, entries) == TableFrom(seed, entries)

mapping_matrix_foa_mixing == [rows |-> 6, cols |-> 6, gain |-> 0]
mapping_matrix_soa_mixing == [rows |-> 11, cols |-> 11, gain |-> 0]
mapping_matrix_toa_mixing == [rows |-> 18, cols |-> 18, gain |-> 0]
mapping_matrix_foa_demixing == [rows |-> 6, cols |-> 6, gain |-> 0]
mapping_matrix_soa_demixing == [rows |-> 11, cols |-> 11, gain |-> 3050]
mapping_matrix_toa_demixing == [rows |-> 18, cols |-> 18, gain |-> -187]

(* MATRIX_INDEX: matrices are stored column after column *)
MATRIX_INDEX(nb_rows, row, col) == nb_rows * col + row

(* the entry of matrix m at (row, col); data index 0 is data[1] *)
MatrixEntry(m, row, col) == m.data[MATRIX_INDEX(m.rows, row, col) + 1]

mapping_matrix_init(rows, cols, gain, data, data_size) ==
  [rows |-> rows, cols |-> cols, gain |-> gain,
   data |-> SubSeq(data, 1, data_size \div SizeofInt16),
   initialized |-> TRUE]

(***************************************************************************)
(* Uninitialized memory: the descriptor fields hold whatever the           *)
(* allocation held.                                                        *)
(***************************************************************************)
GarbageDims == {-1, 2, MaxGarbageDim}
GarbageWords == {-3, 5}

Max0(x) == IF x < 0 THEN 0 ELSE x

UninitializedMatrix(rows, cols, word) ==
  [rows |-> rows, cols |-> cols, gain |-> word,
   data |-> TableFrom(word, Max0(rows * cols)),
   initialized |-> FALSE]

GarbageMatrices ==
  { UninitializedMatrix(r, c, w) :
      r \in GarbageDims, c \in GarbageDims, w \in GarbageWords }

NoMatrix == [rows |-> 0, cols |-> 0, gain |-> 0, data |-> <<>>,
             initialized |-> FALSE]

(***************************************************************************)
(* Sub-encoder (multistream encoder): its published layout and an          *)
(* abstract state that its own operations advance.                         *)
(***************************************************************************)
NoMS == [nb_channels |-> 0, nb_streams |-> 0, nb_coupled_streams |-> 0,
         state |-> 0]

opus_multistream_encoder_init(channels, streams, coupled_streams) ==
  [nb_channels |-> channels, nb_streams |-> streams,
   nb_coupled_streams |-> coupled_streams, state |-> 0]

MSInitResults == {OPUS_OK, OPUS_BAD_ARG}

NoHeader == [mixing_matrix_size_in_bytes |-> 0,
             demixing_matrix_size_in_bytes |-> 0]

NoEnc == [hdr |-> NoHeader, mixing |-> NoMatrix, demixing |-> NoMatrix,
          ms |-> NoMS]

(***************************************************************************)
(* Initialization.                                                         *)
(***************************************************************************)
(* select_mixing_matrix whose first branch also takes order_plus_one = 1 *)
select_mixing_matrix_order_le_2(order_plus_one, seed, uninit) ==
  IF order_plus_one <= 2
  THEN mapping_matrix_init(mapping_matrix_foa_mixing.rows,
         mapping_matrix_foa_mixing.cols, mapping_matrix_foa_mixing.gain,
         CatalogData(seed + 7, 36), 36 * SizeofInt16)
  ELSE IF order_plus_one = 3
  THEN mapping_matrix_init(mapping_matrix_soa_mixing.rows,
         mapping_matrix_soa_mixing.cols, mapping_matrix_soa_mixing.gain,
         CatalogData(seed + 7, 121), 121 * SizeofInt16)
  ELSE IF order_plus_one = 4
  THEN mapping_matrix_init(mapping_matrix_toa_mixing.rows,
         mapping_matrix_toa_mixing.cols, mapping_matrix_toa_mixing.gain,
         CatalogData(seed + 7, 324), 324 * SizeofInt16)
  ELSE uninit

select_mixing_matrix(order_plus_one, seed, uninit) ==
  IF order_plus_one = 2
  THEN mapping_matrix_init(mapping_matrix_foa_mixing.rows,
         mapping_matrix_foa_mixing.cols, mapping_matrix_foa_mixing.gain,
         CatalogData(seed + 7, 36), 36 * SizeofInt16)
  ELSE IF order_plus_one = 3
  THEN mapping_matrix_init(mapping_matrix_soa_mixing.rows,
         mapping_matrix_soa_mixing.cols, mapping_matrix_soa_mixing.gain,
         CatalogData(seed + 7, 121), 121 * SizeofInt16)
  ELSE IF order_plus_one = 4
  THEN mapping_matrix_init(mapping_matrix_toa_mixing.rows,
         mapping_matrix_toa_mixing.cols, mapping_matrix_toa_mixing.gain,
         CatalogData(seed + 7, 324), 324 * SizeofInt16)
  ELSE uninit

select_demixing_matrix(order_plus_one, seed, uninit) ==
  IF order_plus_one = 2
  THEN mapping_matrix_init(mapping_matrix_foa_demixing.rows,
         mapping_matrix_foa_demixing.cols, mapping_matrix_foa_demixing.gain,
         CatalogData(seed, 36), 36 * SizeofInt16)
  ELSE IF order_plus_one = 3
  THEN mapping_matrix_init(mapping_matrix_soa_demixing.rows,
         mapping_matrix_soa_demixing.cols, mapping_matrix_soa_demixing.gain,
         CatalogData(seed, 121), 121 * SizeofInt16)
  ELSE IF order_plus_one = 4
  THEN mapping_matrix_init(mapping_matrix_toa_demixing.rows,
         mapping_matrix_toa_demixing.cols, mapping_matrix_toa_demixing.gain,
         CatalogData(seed, 324), 324 * SizeofInt16)
  ELSE uninit

(* stage: how far the function got; read_uninit: whether rows/cols of a    *)
(* descriptor that no mapping_matrix_init wrote were read                  *)
InitFailure(ret, stage) ==
  [ret |-> ret, stage |-> stage, streams |-> -1, coupled_streams |-> -1,
   read_uninit_mixing |-> FALSE, read_uninit_demixing |-> FALSE,
   enc |-> NoEnc]

InitAfterOut(ret, stage, r) ==
  [InitFailure(ret, stage) EXCEPT !.streams = r.streams,
                                  !.coupled_streams = r.coupled_streams]

(* the header sizes are computed from the rows and cols found in the two   *)
(* descriptors, whether or not mapping_matrix_init wrote them              *)
InitResult(ret, stage, r, mixing_matrix, demixing_matrix, ms) ==
  [ret |-> ret, stage |-> stage,
   streams |-> r.streams, coupled_streams |-> r.coupled_streams,
   read_uninit_mixing |-> ~mixing_matrix.initialized,
   read_uninit_demixing |-> ~demixing_matrix.initialized,
   enc |-> [hdr |-> [mixing_matrix_size_in_bytes |->
                       mapping_matrix_get_size(mixing_matrix.rows,
                                               mixing_matrix.cols),
                     demixing_matrix_size_in_bytes |->
                       mapping_matrix_get_size(demixing_matrix.rows,
                                               demixing_matrix.cols)],
            mixing |-> mixing_matrix, demixing |-> demixing_matrix,
            ms |-> ms]]

(* the dimension check and the initialization of the sub-encoder *)
init_check_and_ms(channels, r, mixing_matrix, demixing_matrix, ms_ret) ==
  IF r.streams + r.coupled_streams > mixing_matrix.rows
     \/ channels > mixing_matrix.cols
     \/ channels > demixing_matrix.rows
     \/ r.streams + r.coupled_streams > demixing_matrix.cols
  THEN InitResult(OPUS_BAD_ARG, "dimensions", r, mixing_matrix,
                  demixing_matrix, NoMS)
  ELSE InitResult(ms_ret, "ms_init", r, mixing_matrix, demixing_matrix,
                  IF ms_ret = OPUS_OK
                  THEN opus_multistream_encoder_init(channels, r.streams,
                                                     r.coupled_streams)
                  ELSE NoMS)

(* the branch of mapping family 253: matrix selection by order_plus_one *)
init_select(channels, r, o, seed, uninit_mixing, uninit_demixing, ms_ret) ==
  IF o.ret # OPUS_OK THEN InitAfterOut(OPUS_BAD_ARG, "order", r)
  ELSE init_check_and_ms(channels, r,
         select_mixing_matrix(o.order_plus_one, seed, uninit_mixing),
         select_demixing_matrix(o.order_plus_one, seed, uninit_demixing),
         ms_ret)

init_resolved(channels, mapping_family, streams_ptr, coupled_streams_ptr, r, seed, uninit_mixing, uninit_demixing, ms_ret) ==
  IF r.ret # OPUS_OK THEN InitFailure(OPUS_BAD_ARG, "resolve")
  ELSE IF ~streams_ptr \/ ~coupled_streams_ptr
  THEN InitFailure(OPUS_BAD_ARG, "null_out")
  ELSE IF mapping_family = 253
  THEN init_select(channels, r, get_order_plus_one_from_channels(channels),
                   seed, uninit_mixing, uninit_demixing, ms_ret)
  ELSE InitAfterOut(OPUS_UNIMPLEMENTED, "family", r)

opus_projection_ambisonics_encoder_init(channels, mapping_family, streams_ptr, coupled_streams_ptr, seed, uninit_mixing, uninit_demixing, ms_ret) ==
  init_resolved(channels, mapping_family, streams_ptr, coupled_streams_ptr,
                get_streams_from_channels(channels, mapping_family),
                seed, uninit_mixing, uninit_demixing, ms_ret)

(***************************************************************************)
(* Construction.                                                           *)
(***************************************************************************)
NoInit == InitFailure(OPUS_OK, "not_run")

(* what the caller finds at *error: "unset" when error is NULL *)
Report(error_ptr, code) == IF error_ptr THEN code ELSE "unset"

(* create_paths that forgets opus_free when init fails *)
create_paths_no_free(size, alloc_ok, init, error_ptr) ==
  IF size = 0
  THEN [st |-> "NULL", error |-> Report(error_ptr, OPUS_ALLOC_FAIL),
        size |-> size, allocs |-> 0, frees |-> 0, init |-> NoInit]
  ELSE IF ~alloc_ok
  THEN [st |-> "NULL", error |-> Report(error_ptr, OPUS_ALLOC_FAIL),
        size |-> size, allocs |-> 0, frees |-> 0, init |-> NoInit]
  ELSE IF init.ret # OPUS_OK
  THEN [st |-> "NULL", error |-> Report(error_ptr, init.ret),
        size |-> size, allocs |-> 1, frees |-> 0, init |-> init]
  ELSE [st |-> "st", error |-> Report(error_ptr, init.ret),
        size |-> size, allocs |-> 1, frees |-> 0, init |-> init]

(* the paths of create, given the size and what init does on the buffer *)
create_paths(size, alloc_ok, init, error_ptr) ==
  IF size = 0
  THEN [st |-> "NULL", error |-> Report(error_ptr, OPUS_ALLOC_FAIL),
        size |-> size, allocs |-> 0, frees |-> 0, init |-> NoInit]
  ELSE IF ~alloc_ok
  THEN [st |-> "NULL", error |-> Report(error_ptr, OPUS_ALLOC_FAIL),
        size |-> size, allocs |-> 0, frees |-> 0, init |-> NoInit]
  ELSE IF init.ret # OPUS_OK
  THEN [st |-> "NULL", error |-> Report(error_ptr, init.ret),
        size |-> size, allocs |-> 1, frees |-> 1, init |-> init]
  ELSE [st |-> "st", error |-> Report(error_ptr, init.ret),
        size |-> size, allocs |-> 1, frees |-> 0, init |-> init]

opus_projection_ambisonics_encoder_create(channels, mapping_family, streams_ptr, coupled_streams_ptr, error_ptr, alloc_ok, seed, uninit_mixing, uninit_demixing, ms_ret) ==
  create_paths(
    opus_projection_ambisonics_encoder_get_size(channels, mapping_family),
    alloc_ok,
    opus_projection_ambisonics_encoder_init(channels, mapping_family,
      streams_ptr, coupled_streams_ptr, seed, uninit_mixing,
      uninit_demixing, ms_ret),
    error_ptr)

(***************************************************************************)
(* Encoding: project through the mixing matrix into a scratch buffer and   *)
(* hand the scratch buffer to the sub-encoder.                             *)
(***************************************************************************)
EncodeResults == {"bytes", OPUS_BAD_ARG}

opus_projection_encode(e, frame_size, ms_ret) ==
  [ret |-> ms_ret,
   scratch |-> (e.ms.nb_streams + e.ms.nb_coupled_streams) * frame_size,
   enc |-> [e EXCEPT !.ms.state = @ + 1]]

(***************************************************************************)
(* Control requests.                                                       *)
(***************************************************************************)
OPUS_PROJECTION_GET_DEMIXING_MATRIX_SIZE_REQUEST == "GET_DEMIXING_MATRIX_SIZE"
OPUS_PROJECTION_GET_DEMIXING_MATRIX_GAIN_REQUEST == "GET_DEMIXING_MATRIX_GAIN"
OPUS_PROJECTION_GET_DEMIXING_MATRIX_REQUEST == "GET_DEMIXING_MATRIX"
ForwardedRequests == {"OPUS_SET_BITRATE", "OPUS_RESET_STATE"}
CtlForwardResults == {OPUS_OK, OPUS_UNIMPLEMENTED}

LowByte(x) == x % 256
HighByte(x) == (x \div 256) % 256

(* a destination buffer of n bytes that nobody wrote yet: -1 marks a byte  *)
(* that still holds the caller's content                                   *)
Untouched(n) == [k \in 1..n |-> -1]

ctl_get_demixing_matrix_size(e, value_ptr) ==
  IF ~value_ptr
  THEN [ret |-> OPUS_BAD_ARG, value |-> -1]
  ELSE [ret |-> OPUS_OK,
        value |-> e.ms.nb_channels
                  * (e.ms.nb_streams + e.ms.nb_coupled_streams)
                  * SizeofInt16]

ctl_get_demixing_matrix_gain(e, value_ptr) ==
  IF ~value_ptr
  THEN [ret |-> OPUS_BAD_ARG, value |-> -1]
  ELSE [ret |-> OPUS_OK, value |-> e.demixing.gain]

(* the copy loop with the two bytes of an entry in the other order *)
copy_demixing_matrix_big_endian(internal_short, count, external_char) ==
  [k \in 1..Len(external_char) |->
     LET i == (k - 1) \div 2
     IN IF i < count
        THEN IF (k - 1) % 2 = 0 THEN HighByte(internal_short[i + 1])
                                ELSE LowByte(internal_short[i + 1])
        ELSE external_char[k]]

(* the copy loop: entry i of the stored data goes to bytes 2i and 2i+1 *)
copy_demixing_matrix(internal_short, count, external_char) ==
  [k \in 1..Len(external_char) |->
     LET i == (k - 1) \div 2
     IN IF i < count
        THEN IF (k - 1) % 2 = 0 THEN LowByte(internal_short[i + 1])
                                ELSE HighByte(internal_short[i + 1])
        ELSE external_char[k]]

(* ctl_get_demixing_matrix that only rejects a destination too short *)
ctl_get_demixing_matrix_accepts_longer(e, external_ptr, external_char, external_size) ==
  LET nb_input_streams == e.ms.nb_streams + e.ms.nb_coupled_streams
      nb_output_streams == e.ms.nb_channels
      internal_size == nb_input_streams * nb_output_streams * SizeofInt16
  IN IF ~external_ptr
     THEN [ret |-> OPUS_BAD_ARG, dest |-> external_char]
     ELSE IF external_size < internal_size
     THEN [ret |-> OPUS_BAD_ARG, dest |-> external_char]
     ELSE [ret |-> OPUS_OK,
           dest |-> copy_demixing_matrix(e.demixing.data,
                      nb_input_streams * nb_output_streams, external_char)]

ctl_get_demixing_matrix(e, external_ptr, external_char, external_size) ==
  LET nb_input_streams == e.ms.nb_streams + e.ms.nb_coupled_streams
      nb_output_streams == e.ms.nb_channels
      internal_size == nb_input_streams * nb_output_streams * SizeofInt16
  IN IF ~external_ptr
     THEN [ret |-> OPUS_BAD_ARG, dest |-> external_char]
     ELSE IF external_size # internal_size
     THEN [ret |-> OPUS_BAD_ARG, dest |-> external_char]
     ELSE [ret |-> OPUS_OK,
           dest |-> copy_demixing_matrix(e.demixing.data,
                      nb_input_streams * nb_output_streams, external_char)]

CtlValue(r, e, external_char) ==
  [ret |-> r.ret, value |-> r.value, dest |-> external_char, enc |-> e]

CtlDest(r, e) ==
  [ret |-> r.ret, value |-> -1, dest |-> r.dest, enc |-> e]

(* opus_projection_encoder_ctl whose gain request assigns the other way:  *)
(* the caller's slot (here 1) is stored as the gain                        *)
opus_projection_encoder_ctl_gain_stored(e, request, ptr, external_char, external_size, ms_ret) ==
  IF request = OPUS_PROJECTION_GET_DEMIXING_MATRIX_SIZE_REQUEST
  THEN CtlValue(ctl_get_demixing_matrix_size(e, ptr), e, external_char)
  ELSE IF request = OPUS_PROJECTION_GET_DEMIXING_MATRIX_GAIN_REQUEST
  THEN CtlValue(ctl_get_demixing_matrix_gain(e, ptr),
                IF ptr THEN [e EXCEPT !.demixing.gain = 1] ELSE e,
                external_char)
  ELSE IF request = OPUS_PROJECTION_GET_DEMIXING_MATRIX_REQUEST
  THEN CtlDest(ctl_get_demixing_matrix(e, ptr, external_char,
                                       external_size), e)
  ELSE [ret |-> ms_ret, value |-> -1, dest |-> external_char,
        enc |-> [e EXCEPT !.ms.state = @ + 1]]

opus_projection_encoder_ctl(e, request, ptr, external_char, external_size, ms_ret) ==
  IF request = OPUS_PROJECTION_GET_DEMIXING_MATRIX_SIZE_REQUEST
  THEN CtlValue(ctl_get_demixing_matrix_size(e, ptr), e, external_char)
  ELSE IF request = OPUS_PROJECTION_GET_DEMIXING_MATRIX_GAIN_REQUEST
  THEN CtlValue(ctl_get_demixing_matrix_gain(e, ptr), e, external_char)
  ELSE IF request = OPUS_PROJECTION_GET_DEMIXING_MATRIX_REQUEST
  THEN CtlDest(ctl_get_demixing_matrix(e, ptr, external_char,
                                       external_size), e)
  ELSE [ret |-> ms_ret, value |-> -1, dest |-> external_char,
        enc |-> [e EXCEPT !.ms.state = @ + 1]]

(***************************************************************************)
(* State.                                                                  *)
(*   st          the handle the caller holds: "NULL" or "st"              *)
(*   heap        the composite buffer: "none", "allocated" or "freed"     *)
(*   frees       number of opus_free calls on the composite buffer        *)
(*   enc         content of the composite buffer                          *)
(*   createCall  arguments and results of the create call                 *)
(*   lastCall    arguments and results of the last encode / ctl call      *)
(*   catalogSeed the content of the coefficient tables                    *)
(*   sizeCall, prevSizeCall   the last two calls of the sizing API        *)
(*   resolveCall the last call of the channel configuration resolver      *)
(***************************************************************************)
VARIABLES st, heap, frees, enc, createCall, lastCall, catalogSeed,
          sizeCall, prevSizeCall, resolveCall

encVars == <<st, heap, frees, enc, createCall, lastCall>>
vars == <<st, heap, frees, enc, createCall, lastCall, catalogSeed,
          sizeCall, prevSizeCall, resolveCall>>

NoCall == [called |-> FALSE, channels |-> 0, mapping_family |-> 0, size |-> 0]

NoResolve == [called |-> FALSE, channels |-> 0, mapping_family |-> 0,
              ret |-> "none", streams |-> -1, coupled_streams |-> -1,
              order_plus_one |-> -1]

NoCreate == [called |-> FALSE, channels |-> 0, mapping_family |-> 0,
             streams_ptr |-> FALSE, coupled_streams_ptr |-> FALSE,
             error_ptr |-> FALSE, alloc_ok |-> FALSE,
             st |-> "NULL", error |-> "unset", size |-> 0,
             allocs |-> 0, frees |-> 0, init |-> NoInit]

NoLast == [api |-> "none", request |-> "none", ret |-> "none", value |-> -1,
           ptr |-> FALSE, external_size |-> -1, dest |-> <<>>,
           frame_size |-> 0, scratch |-> 0]

Init ==
  /\ st = "NULL"
  /\ heap = "none"
  /\ frees = 0
  /\ enc = NoEnc
  /\ createCall = NoCreate
  /\ lastCall = NoLast
  /\ catalogSeed \in CatalogSeeds
  /\ sizeCall = NoCall
  /\ prevSizeCall = NoCall
  /\ resolveCall = NoResolve

(***************************************************************************)
(* Actions.                                                                *)
(***************************************************************************)
HasCatalogEntry(order_plus_one) == order_plus_one \in {2, 3, 4}

(* the uninitialized descriptors a call can find: only a call that gets    *)
(* to the selection with an order outside the catalog reads them           *)
GarbageFor(selects, channels) ==
  IF selects
     /\ ~HasCatalogEntry(
           get_order_plus_one_from_channels(channels).order_plus_one)
  THEN GarbageMatrices ELSE {NoMatrix}

CreateEffect(c, channels, mapping_family, streams_ptr, coupled_streams_ptr, error_ptr, alloc_ok) ==
  /\ st' = c.st
  /\ heap' = IF c.allocs = 0 THEN "none"
             ELSE IF c.frees = 0 THEN "allocated" ELSE "freed"
  /\ frees' = c.frees
  /\ enc' = IF c.st = "NULL" THEN NoEnc ELSE c.init.enc
  /\ createCall' =
       [called |-> TRUE, channels |-> channels,
        mapping_family |-> mapping_family,
        streams_ptr |-> streams_ptr,
        coupled_streams_ptr |-> coupled_streams_ptr,
        error_ptr |-> error_ptr, alloc_ok |-> alloc_ok,
        st |-> c.st, error |-> c.error, size |-> c.size,
        allocs |-> c.allocs, frees |-> c.frees,
        init |-> [c.init EXCEPT !.enc = NoEnc]]
  /\ lastCall' = NoLast

(* Create: one call of opus_projection_ambisonics_encoder_create on a      *)
(* process that holds no encoder.  Inputs that the call never looks at     *)
(* are not enumerated.                                                     *)
Create ==
  /\ ~createCall.called
  /\ \E channels \in Channels, mapping_family \in Families,
        error_ptr \in BOOLEAN :
       \E alloc_ok \in
            (IF opus_projection_ambisonics_encoder_get_size(
                  channels, mapping_family) = 0
             THEN {FALSE} ELSE BOOLEAN) :
       \E streams_ptr \in (IF alloc_ok THEN BOOLEAN ELSE {FALSE}),
          coupled_streams_ptr \in (IF alloc_ok THEN BOOLEAN ELSE {FALSE}) :
       \E uninit_mixing \in
            GarbageFor(alloc_ok /\ streams_ptr /\ coupled_streams_ptr,
                       channels),
          uninit_demixing \in
            GarbageFor(alloc_ok /\ streams_ptr /\ coupled_streams_ptr,
                       channels),
          ms_ret \in (IF alloc_ok /\ streams_ptr /\ coupled_streams_ptr
                      THEN MSInitResults ELSE {OPUS_OK}) :
         CreateEffect(
           opus_projection_ambisonics_encoder_create(channels,
             mapping_family, streams_ptr, coupled_streams_ptr, error_ptr,
             alloc_ok, catalogSeed, uninit_mixing, uninit_demixing, ms_ret),
           channels, mapping_family, streams_ptr, coupled_streams_ptr,
           error_ptr, alloc_ok)
  /\ UNCHANGED <<catalogSeed, sizeCall, prevSizeCall, resolveCall>>

EncodeEffect(r, api, frame_size) ==
  /\ enc' = r.enc
  /\ lastCall' = [NoLast EXCEPT !.api = api, !.ret = r.ret,
                                !.frame_size = frame_size,
                                !.scratch = r.scratch]

Encode ==
  /\ st = "st"
  /\ enc.ms.state < MaxMsOps
  /\ \E frame_size \in 1..MaxFrameSize, ms_ret \in EncodeResults,
        api \in {"encode", "encode_float"} :
       EncodeEffect(opus_projection_encode(enc, frame_size, ms_ret),
                    api, frame_size)
  /\ UNCHANGED <<st, heap, frees, createCall, catalogSeed,
                 sizeCall, prevSizeCall, resolveCall>>

CtlEffect(r, request, ptr, external_size) ==
  /\ enc' = r.enc
  /\ lastCall' = [NoLast EXCEPT !.api = "ctl", !.request = request,
                                !.ret = r.ret, !.value = r.value,
                                !.ptr = ptr,
                                !.external_size = external_size,
                                !.dest = r.dest]

CtlGetDemixingMatrixSize ==
  /\ st = "st"
  /\ \E value_ptr \in BOOLEAN :
       CtlEffect(opus_projection_encoder_ctl(enc,
                   OPUS_PROJECTION_GET_DEMIXING_MATRIX_SIZE_REQUEST,
                   value_ptr, <<>>, -1, OPUS_OK),
                 OPUS_PROJECTION_GET_DEMIXING_MATRIX_SIZE_REQUEST,
                 value_ptr, -1)
  /\ UNCHANGED <<st, heap, frees, createCall, catalogSeed,
                 sizeCall, prevSizeCall, resolveCall>>

CtlGetDemixingMatrixGain ==
  /\ st = "st"
  /\ \E value_ptr \in BOOLEAN :
       CtlEffect(opus_projection_encoder_ctl(enc,
                   OPUS_PROJECTION_GET_DEMIXING_MATRIX_GAIN_REQUEST,
                   value_ptr, <<>>, -1, OPUS_OK),
                 OPUS_PROJECTION_GET_DEMIXING_MATRIX_GAIN_REQUEST,
                 value_ptr, -1)
  /\ UNCHANGED <<st, heap, frees, createCall, catalogSeed,
                 sizeCall, prevSizeCall, resolveCall>>

(* the byte lengths a caller tries: the exact size, one short, one long,   *)
(* nothing, and the size of the whole stored matrix                        *)
ExactSize(e) ==
  e.ms.nb_channels * (e.ms.nb_streams + e.ms.nb_coupled_streams)
  * SizeofInt16

DestinationSizes(e) ==
  {ExactSize(e), ExactSize(e) - 1, ExactSize(e) + 1, 0,
   Max0(e.demixing.rows * e.demixing.cols) * SizeofInt16}

CtlGetDemixingMatrix ==
  /\ st = "st"
  /\ \E external_ptr \in BOOLEAN, external_size \in DestinationSizes(enc) :
       CtlEffect(opus_projection_encoder_ctl(enc,
                   OPUS_PROJECTION_GET_DEMIXING_MATRIX_REQUEST,
                   external_ptr,
                   IF external_ptr THEN Untouched(external_size) ELSE <<>>,
                   external_size, OPUS_OK),
                 OPUS_PROJECTION_GET_DEMIXING_MATRIX_REQUEST,
                 external_ptr, external_size)
  /\ UNCHANGED <<st, heap, frees, createCall, catalogSeed,
                 sizeCall, prevSizeCall, resolveCall>>

CtlForward ==
  /\ st = "st"
  /\ enc.ms.state < MaxMsOps
  /\ \E request \in ForwardedRequests, ms_ret \in CtlForwardResults :
       CtlEffect(opus_projection_encoder_ctl(enc, request, TRUE, <<>>, -1,
                                             ms_ret),
                 request, TRUE, -1)
  /\ UNCHANGED <<st, heap, frees, createCall, catalogSeed,
                 sizeCall, prevSizeCall, resolveCall>>

(* opus_projection_encoder_destroy: one opus_free of the buffer *)
Destroy ==
  /\ st = "st"
  /\ st' = "NULL"
  /\ heap' = "freed"
  /\ frees' = frees + 1
  /\ enc' = NoEnc
  /\ lastCall' = [NoLast EXCEPT !.api = "destroy"]
  /\ UNCHANGED <<createCall, catalogSeed, sizeCall, prevSizeCall, resolveCall>>

Next ==
  \/ Create
  \/ Encode
  \/ CtlGetDemixingMatrixSize
  \/ CtlGetDemixingMatrixGain
  \/ CtlGetDemixingMatrix
  \/ CtlForward
  \/ Destroy

Spec == Init /\ [][Next]_vars

(***************************************************************************)
(* The sizing API on its own: pairs of calls.                              *)
(***************************************************************************)

(* one call of the sizing API; the call before it is remembered *)
GetSize(channels, mapping_family) ==
  /\ sizeCall' = [called |-> TRUE, channels |-> channels,
                  mapping_family |-> mapping_family,
                  size |-> opus_projection_ambisonics_encoder_get_size(
                             channels, mapping_family)]
  /\ prevSizeCall' = sizeCall
  /\ UNCHANGED <<st, heap, frees, enc, createCall, lastCall, catalogSeed,
                 resolveCall>>

SizeNext ==
  \E channels \in 0..MaxSizeChannels, mapping_family \in Families :
     GetSize(channels, mapping_family)

SizeSpec == Init /\ [][SizeNext]_vars

(***************************************************************************)
(* The resolver on its own: one call per step.                             *)
(***************************************************************************)
ResolveEffect(r, channels, mapping_family) ==
  resolveCall' = [called |-> TRUE, channels |-> channels,
                  mapping_family |-> mapping_family, ret |-> r.ret,
                  streams |-> r.streams,
                  coupled_streams |-> r.coupled_streams,
                  order_plus_one |-> r.order_plus_one]

Resolve(channels, mapping_family) ==
  /\ ResolveEffect(get_streams_from_channels(channels, mapping_family),
                   channels, mapping_family)
  /\ UNCHANGED <<st, heap, frees, enc, createCall, lastCall, catalogSeed,
                 sizeCall, prevSizeCall>>

ResolveNext ==
  \E channels \in Channels, mapping_family \in Families :
     Resolve(channels, mapping_family)

ResolveSpec == Init /\ [][ResolveNext]_vars

(***************************************************************************)
(* Arithmetic of the statements, defined without the program's operators.  *)
(***************************************************************************)
FloorSqrt(n) == CHOOSE k \in 0..n : k * k <= n /\ (k + 1) * (k + 1) > n
CeilHalf(n) == CHOOSE k \in 0..n : 2 * k >= n /\ 2 * (k - 1) < n
FloorHalf(n) == CHOOSE k \in 0..n : 2 * k <= n /\ 2 * (k + 1) > n
Signed16(b0, b1) ==
  IF b0 + 256 * b1 >= 32768 THEN b0 + 256 * b1 - 65536 ELSE b0 + 256 * b1

ValidChannels(channels) ==
  /\ FloorSqrt(channels) >= 1
  /\ FloorSqrt(channels) <= 15
  /\ channels - FloorSqrt(channels) * FloorSqrt(channels) \in {0, 2}

(* C1: get_streams_from_channels succeeds exactly for family 253 with      *)
(* orderPlusOne = floor(sqrt(channels)) in 1..15 and channels -            *)
(* orderPlusOne^2 in {0, 2}; on success streams = ceil(channels/2),        *)
(* coupled = floor(channels/2) and streams + coupled <= channels; in every *)
(* other case it fails with OPUS_BAD_ARG.                                  *)
C1_Resolve ==
  resolveCall.called =>
    /\ (resolveCall.ret = OPUS_OK) <=>
         (resolveCall.mapping_family = 253
          /\ ValidChannels(resolveCall.channels))
    /\ resolveCall.ret = OPUS_OK =>
         /\ resolveCall.order_plus_one = FloorSqrt(resolveCall.channels)
         /\ resolveCall.streams = CeilHalf(resolveCall.channels)
         /\ resolveCall.coupled_streams = FloorHalf(resolveCall.channels)
         /\ resolveCall.streams + resolveCall.coupled_streams
              <= resolveCall.channels
    /\ resolveCall.ret # OPUS_OK => resolveCall.ret = OPUS_BAD_ARG

C1_Witness ==
  /\ resolveCall.called
  /\ resolveCall.channels = 227
  /\ resolveCall.mapping_family = 253
  /\ resolveCall.ret = OPUS_OK
  /\ resolveCall.streams = 114
  /\ resolveCall.coupled_streams = 113

(***************************************************************************)
(* Shorthands of the statements about create and the control requests.     *)
(***************************************************************************)
CreateResolves ==
  /\ createCall.mapping_family = 253
  /\ ValidChannels(createCall.channels)

IsMatrixRequest ==
  /\ st = "st"
  /\ lastCall.api = "ctl"
  /\ lastCall.request = OPUS_PROJECTION_GET_DEMIXING_MATRIX_REQUEST
  /\ lastCall.ptr

(* the coefficient serialized at output position i (0-based) *)
Serialized(i) == Signed16(lastCall.dest[2 * i + 1], lastCall.dest[2 * i + 2])

(* C2: create with a channel count or scheme for which resolution fails    *)
(* reports OPUS_BAD_ARG; OPUS_ALLOC_FAIL is reported only when resolution  *)
(* succeeded and the total size is zero or the allocation failed.          *)
C2_ResolutionFailureIsBadArg ==
  (createCall.called /\ createCall.error_ptr) =>
    /\ ~CreateResolves => createCall.error = OPUS_BAD_ARG
    /\ createCall.error = OPUS_ALLOC_FAIL =>
         (CreateResolves /\ (createCall.size = 0 \/ ~createCall.alloc_ok))

(* C3: on every path of create the handle is non-null exactly when the     *)
(* reported error is OPUS_OK; when init fails after the allocation the     *)
(* buffer is freed exactly once and NULL is returned; a NULL return        *)
(* leaves no allocated buffer behind and a returned buffer was not freed.  *)
C3_CreatePaths ==
  createCall.called =>
    /\ createCall.error_ptr =>
         ((createCall.st # "NULL") <=> (createCall.error = OPUS_OK))
    /\ (createCall.allocs = 1 /\ createCall.init.ret # OPUS_OK) =>
         (createCall.frees = 1 /\ createCall.st = "NULL")
    /\ createCall.st = "NULL" => createCall.allocs = createCall.frees
    /\ createCall.st # "NULL" =>
         (createCall.allocs = 1 /\ createCall.frees = 0)
    /\ createCall.allocs <= 1
    /\ createCall.frees <= createCall.allocs

C3_Witness ==
  /\ createCall.called
  /\ createCall.channels = 4
  /\ createCall.allocs = 1
  /\ createCall.init.stage = "ms_init"
  /\ createCall.init.ret = OPUS_BAD_ARG
  /\ createCall.frees = 1
  /\ createCall.st = "NULL"
  /\ heap = "freed"

(* C4: GetDemixingMatrix with a non-null destination succeeds exactly when *)
(* the byte length equals what GetDemixingMatrixSize returns, which is     *)
(* channels * (streams + coupled streams) * 2; for every other length it   *)
(* returns OPUS_BAD_ARG and writes no byte of the destination.             *)
C4_MatrixLength ==
  IsMatrixRequest =>
    /\ ctl_get_demixing_matrix_size(enc, TRUE).value
         = createCall.channels
           * (createCall.init.streams + createCall.init.coupled_streams) * 2
    /\ (lastCall.ret = OPUS_OK) <=>
         (lastCall.external_size
            = ctl_get_demixing_matrix_size(enc, TRUE).value)
    /\ lastCall.ret # OPUS_OK =>
         /\ lastCall.ret = OPUS_BAD_ARG
         /\ Len(lastCall.dest) = lastCall.external_size
         /\ \A k \in 1..Len(lastCall.dest) : lastCall.dest[k] = -1

C4_Witness ==
  /\ IsMatrixRequest
  /\ createCall.channels = 6
  /\ lastCall.external_size = 71
  /\ lastCall.ret = OPUS_BAD_ARG
  /\ lastCall.dest = Untouched(71)

(* C5: the total size is monotonically non-decreasing in channels for a    *)
(* fixed scheme, for all channel counts c1 <= c2.                          *)
C5_MonotoneAll ==
  (/\ sizeCall.called
   /\ prevSizeCall.called
   /\ prevSizeCall.mapping_family = sizeCall.mapping_family
   /\ prevSizeCall.channels <= sizeCall.channels)
  => prevSizeCall.size <= sizeCall.size

(* C5 as amended: the total size is monotonically non-decreasing in        *)
(* channels over the channel counts that resolve under the scheme.         *)
C5_MonotoneValid ==
  (/\ sizeCall.called
   /\ prevSizeCall.called
   /\ prevSizeCall.mapping_family = 253
   /\ sizeCall.mapping_family = 253
   /\ ValidChannels(prevSizeCall.channels)
   /\ ValidChannels(sizeCall.channels)
   /\ prevSizeCall.channels <= sizeCall.channels)
  => (0 < prevSizeCall.size /\ prevSizeCall.size <= sizeCall.size)

C5_Witness ==
  /\ sizeCall.called
  /\ prevSizeCall.called
  /\ prevSizeCall.mapping_family = 253
  /\ sizeCall.mapping_family = 253
  /\ prevSizeCall.channels = 6
  /\ sizeCall.channels = 9
  /\ prevSizeCall.size < sizeCall.size

(* C6: while the handle lives, no encode call and no control request       *)
(* changes the two sizes of the header or the stored demixing matrix, and  *)
(* every GetDemixingMatrixGain call returns the stored gain.               *)
C6_Step ==
  (st = "st" /\ st' = "st") =>
    /\ enc'.hdr = enc.hdr
    /\ enc'.demixing = enc.demixing
    /\ (/\ lastCall'.api = "ctl"
        /\ lastCall'.request
             = OPUS_PROJECTION_GET_DEMIXING_MATRIX_GAIN_REQUEST
        /\ lastCall'.ret = OPUS_OK)
       => lastCall'.value = enc.demixing.gain

C6_Immutable == [][C6_Step]_vars

C6_Witness ==
  /\ st = "st"
  /\ createCall.channels = 11
  /\ enc.ms.state = MaxMsOps
  /\ lastCall.api = "ctl"
  /\ lastCall.request = OPUS_PROJECTION_GET_DEMIXING_MATRIX_GAIN_REQUEST
  /\ lastCall.ret = OPUS_OK
  /\ lastCall.value = mapping_matrix_soa_demixing.gain

(* C7: on a successful GetDemixingMatrix, bytes 2i and 2i+1 of the         *)
(* destination are the low and the high 8 bits of the two's-complement     *)
(* 16-bit coefficient copied to index i, so that reading them as a         *)
(* little-endian signed 16-bit integer gives the coefficient back.         *)
C7_LittleEndian ==
  (IsMatrixRequest /\ lastCall.ret = OPUS_OK) =>
    \A i \in 0..(lastCall.external_size \div 2 - 1) :
      /\ lastCall.dest[2 * i + 1] \in 0..255
      /\ lastCall.dest[2 * i + 2] \in 0..255
      /\ lastCall.dest[2 * i + 1] = enc.demixing.data[i + 1] % 256
      /\ lastCall.dest[2 * i + 2]
           = ((enc.demixing.data[i + 1] + 65536) % 65536) \div 256
      /\ Serialized(i) = enc.demixing.data[i + 1]

C7_Witness ==
  /\ IsMatrixRequest
  /\ lastCall.ret = OPUS_OK
  /\ createCall.channels = 16
  /\ enc.demixing.data[1] = -32768
  /\ lastCall.dest[1] = 0
  /\ lastCall.dest[2] = 128
  /\ enc.demixing.data[256] = 32767
  /\ lastCall.dest[511] = 255
  /\ lastCall.dest[512] = 127

(* C8: on a successful GetDemixingMatrix, for every input stream s and     *)
(* every output channel c the coefficient at output position               *)
(* s * channels + c is the stored demixing entry (c, s), for every         *)
(* constructible channel count.                                            *)
C8_SubsetByEntry ==
  (IsMatrixRequest /\ lastCall.ret = OPUS_OK /\ enc.demixing.initialized) =>
    \A s \in 0..(enc.ms.nb_streams + enc.ms.nb_coupled_streams - 1),
       c \in 0..(enc.ms.nb_channels - 1) :
      Serialized(s * enc.ms.nb_channels + c) = MatrixEntry(enc.demixing, c, s)

(* C9: a create call that gets to the matrix selection returns no error    *)
(* there; with orderPlusOne = 1 or in 5..15 neither descriptor was         *)
(* initialized when its rows and cols are read, with orderPlusOne in       *)
(* 2..4 both were.                                                         *)
C9_UninitializedDescriptors ==
  (/\ createCall.called
   /\ createCall.allocs = 1
   /\ createCall.streams_ptr
   /\ createCall.coupled_streams_ptr) =>
    /\ CreateResolves
    /\ createCall.init.stage \in {"dimensions", "ms_init"}
    /\ FloorSqrt(createCall.channels) \in ({1} \cup 5..15) =>
         (createCall.init.read_uninit_mixing
          /\ createCall.init.read_uninit_demixing)
    /\ FloorSqrt(createCall.channels) \in {2, 3, 4} =>
         (~createCall.init.read_uninit_mixing
          /\ ~createCall.init.read_uninit_demixing)

C9_Witness ==
  /\ createCall.called
  /\ createCall.channels = 25
  /\ createCall.allocs = 1
  /\ createCall.init.stage = "dimensions"
  /\ createCall.init.read_uninit_mixing
  /\ createCall.init.read_uninit_demixing

(* C10: in an encoder constructed with orderPlusOne in 2..4 the header,    *)
(* the mixing block, the demixing block and the sub-encoder, located from  *)
(* the stored sizes, lie in that order without overlap; each stored size   *)
(* is the size of the stored matrix and at most the nominal size of an     *)
(* (orderPlusOne^2 + 2)-square matrix; the sub-encoder ends within the     *)
(* total size computed for the same channels and scheme.                   *)
NominalMatrixSize(channels) ==
  mapping_matrix_get_size(FloorSqrt(channels) * FloorSqrt(channels) + 2,
                          FloorSqrt(channels) * FloorSqrt(channels) + 2)

C10_Layout ==
  (st = "st" /\ FloorSqrt(createCall.channels) \in {2, 3, 4}) =>
    /\ SizeofOpusProjectionEncoder <= get_mixing_matrix(enc.hdr)
    /\ enc.hdr.mixing_matrix_size_in_bytes > 0
    /\ get_mixing_matrix(enc.hdr) + enc.hdr.mixing_matrix_size_in_bytes
         <= get_demixing_matrix(enc.hdr)
    /\ enc.hdr.demixing_matrix_size_in_bytes > 0
    /\ get_demixing_matrix(enc.hdr) + enc.hdr.demixing_matrix_size_in_bytes
         <= get_multistream_encoder(enc.hdr)
    /\ enc.hdr.mixing_matrix_size_in_bytes
         = mapping_matrix_get_size(enc.mixing.rows, enc.mixing.cols)
    /\ enc.hdr.demixing_matrix_size_in_bytes
         = mapping_matrix_get_size(enc.demixing.rows, enc.demixing.cols)
    /\ enc.hdr.mixing_matrix_size_in_bytes
         <= NominalMatrixSize(createCall.channels)
    /\ enc.hdr.demixing_matrix_size_in_bytes
         <= NominalMatrixSize(createCall.channels)
    /\ opus_multistream_encoder_get_size(enc.ms.nb_streams,
                                         enc.ms.nb_coupled_streams) > 0
    /\ get_multistream_encoder(enc.hdr)
       + opus_multistream_encoder_get_size(enc.ms.nb_streams,
                                           enc.ms.nb_coupled_streams)
         <= opus_projection_ambisonics_encoder_get_size(
              createCall.channels, createCall.mapping_family)

C10_Witness ==
  /\ st = "st"
  /\ createCall.channels = 4
  /\ enc.mixing.rows = 6
  /\ enc.ms.nb_streams = 2
  /\ enc.ms.nb_coupled_streams = 2
  /\ get_multistream_encoder(enc.hdr) > get_demixing_matrix(enc.hdr)
====
